---- MODULE Spec2Model ----
(***************************************************************************)
(* A model of trainer.py: Batch (masks and token count), LabelSmoothing    *)
(* (the smoothed target distribution), SimpleLossCompute, TrainState and   *)
(* run_epoch (the per-batch protocol of forward, loss, backward,           *)
(* accumulation-gated optimizer step, scheduler step, totals and report).  *)
(*                                                                         *)
(* Real numbers are modelled as exact rationals <<n, d>> in lowest terms;  *)
(* floating-point rounding is not modelled.                                *)
(***************************************************************************)
EXTENDS Integers, Sequences, FiniteSets, TLC

VARIABLES
    heap,          \* TrainState class attributes and the instances' __dict__
    pc,            \* position of the run_epoch call in progress
    data_iter,     \* the batches every call iterates: a stream and a length
    args,          \* mode, accum_iter, train_state of the call in progress
    i,             \* index of the current batch (enumerate), -1 before the first
    loss,          \* display loss of the current batch
    total_tokens,  \* run_epoch local
    total_loss,    \* run_epoch local
    tokens,        \* run_epoch local: tokens since the last report
    n_accum,       \* run_epoch local
    calls,         \* external calls made by the call in progress, per capability
    reports,       \* progress reports printed by the call in progress
    ret,           \* value returned by the last call, None before it returns
    fault,         \* the external call that raised, None if none
    ncalls,        \* run_epoch calls made so far
    entry,         \* the counters of train_state when the call in progress began
    trained,       \* per instance, the training-mode calls on it that returned
    trace,         \* the external calls of the call in progress, each with its batch index
    grad,          \* the model's gradient buffer: the batches back-propagated into it
    applied,       \* the gradient contents the latest optimizer.step applied
    refs,          \* the TrainState instances the caller holds a reference to
    b_pc, b_src, b_tgt, b_pad, batch,          \* Batch(src, tgt, pad)
    ls_pc, ls_self, ls_cols, ls_target, ls_fault,  \* LabelSmoothing.forward(x, target)
    lc_pc,         \* SimpleLossCompute: "idle" before the first call, then "called"
    lc_criterion,  \* the LabelSmoothing object held as self.criterion
    lc_in,         \* x, y, norm of the latest call
    lc_out,        \* display and backward loss returned by the latest call
    lc_prev,       \* what the call before returned, when the latest repeated its inputs
    lc_n,          \* calls made so far
    lc_backward    \* backward() invocations made by the calls

epochVars == <<heap, data_iter, pc, args, i, loss, total_tokens, total_loss, tokens,
               n_accum, calls, reports, ret, fault, ncalls, entry,
               trained, trace, grad, applied, refs>>
batchVars == <<b_pc, b_src, b_tgt, b_pad, batch>>
lsVars    == <<ls_pc, ls_self, ls_cols, ls_target, ls_fault>>
lossVars  == <<lc_pc, lc_criterion, lc_in, lc_out, lc_prev, lc_n, lc_backward>>
vars      == <<epochVars, batchVars, lsVars, lossVars>>

None == "None"

(***************************************************************************)
(* Bounds of the model.                                                    *)
(***************************************************************************)
MaxBatches   == 5   \* longest data_iter
MaxAccum     == 2   \* largest accum_iter
MaxCalls     == 2   \* run_epoch calls in one behaviour
MaxInstances == 1   \* TrainState instances constructed besides the default one
MaxBatchSize == 2   \* rows of a Batch under SpecBatch
MaxTgtLen    == 3   \* target length under SpecBatch
MaxSrcLen    == 1   \* source length under SpecBatch
MaxSize      == 5   \* largest LabelSmoothing size
MaxRows      == 2   \* rows of x / entries of target under SpecLS and SpecLoss
MaxLossCalls == 3   \* SimpleLossCompute calls in one behaviour
MaxLogBatches == 43 \* batches of the longest data_iter under SpecLog
SmoothDen    == 10  \* smoothing ranges over 0/SmoothDen .. (SmoothDen-1)/SmoothDen

(***************************************************************************)
(* Exact rationals.                                                        *)
(***************************************************************************)
RECURSIVE GCD(_, _)
GCD(a, b) == IF b = 0 THEN a ELSE GCD(b, a % b)

Abs(a) == IF a < 0 THEN -a ELSE a

\* n/d in lowest terms with a positive denominator (d # 0)
Rat(n, d) ==
    LET g == GCD(Abs(n), Abs(d))
        s == IF d < 0 THEN -1 ELSE 1
    IN  <<(s * n) \div g, (s * d) \div g>>

RatInt(n)    == <<n, 1>>
RatAdd(p, q) == Rat(p[1] * q[2] + q[1] * p[2], p[2] * q[2])
RatMul(p, q) == Rat(p[1] * q[1], p[2] * q[2])
RatDiv(p, q) == Rat(p[1] * q[2], p[2] * q[1])

(***************************************************************************)
(* Batch.  A 2-D tensor is a sequence of rows, a 3-D tensor a sequence of  *)
(* matrices; positions are numbered from 1.                                *)
(***************************************************************************)
Tokens == {1, 2}         \* token ids of the arrays drawn under SpecBatch
PadIds == {1, 2}         \* values of the pad argument drawn under SpecBatch

\* tensor != pad, element-wise on a 2-D tensor
NotPad(t, pad) == [b \in 1..Len(t) |-> [j \in 1..Len(t[b]) |-> t[b][j] # pad]]

\* unsqueeze(-2) of a 2-D tensor: [B, L] -> [B, 1, L]
Unsqueeze2(t) == [b \in 1..Len(t) |-> <<t[b]>>]

\* utils.subsequent_mask(size): the [1, size, size] mask, true where column <= row
subsequent_mask(size) ==
    << [r \in 1..size |-> [c \in 1..size |-> c <= r]] >>

\* tgt.size(-1)
LastDim(t) == Len(t[1])

\* a & b with broadcasting, a of shape [B, 1, L] and b of shape [1, L, L]
BroadcastAnd(a, b) ==
    LET B  == IF Len(a) = 1 THEN Len(b) ELSE Len(a)
        R  == IF Len(a[1]) = 1 THEN Len(b[1]) ELSE Len(a[1])
        ix(t, k, n) == IF n = 1 THEN 1 ELSE k
    IN  [bb \in 1..B |-> [r \in 1..R |-> [c \in 1..Len(b[1][1]) |->
            /\ a[ix(a, bb, Len(a))][ix(a, r, Len(a[1]))][c]
            /\ b[ix(b, bb, Len(b))][ix(b, r, Len(b[1]))][c] ]]]

\* the causal component left out: every row is the padding mask
make_std_mask_PadOnly(tgt, pad) ==
    [b \in 1..Len(tgt) |-> [r \in 1..LastDim(tgt) |-> NotPad(tgt, pad)[b]]]

\* Batch.make_std_mask(tgt, pad)
make_std_mask(tgt, pad) ==
    LET tgt_mask == Unsqueeze2(NotPad(tgt, pad))
    IN  BroadcastAnd(tgt_mask, subsequent_mask(LastDim(tgt)))

\* tgt[:, :-1] and tgt[:, 1:]
DropLast(t)  == [b \in 1..Len(t) |-> SubSeq(t[b], 1, Len(t[b]) - 1)]
DropFirst(t) == [b \in 1..Len(t) |-> SubSeq(t[b], 2, Len(t[b]))]

RECURSIVE SumSeq(_)
SumSeq(s) == IF s = <<>> THEN 0 ELSE Head(s) + SumSeq(Tail(s))

\* (t != pad).sum()
CountNotPad(t, pad) ==
    SumSeq([b \in 1..Len(t) |->
        SumSeq([j \in 1..Len(t[b]) |-> IF t[b][j] # pad THEN 1 ELSE 0])])

\* An optional value is <<>> (None) or <<v>>.
NoneT == <<>>
Some(v) == <<v>>

\* ntokens counted on the decoder input instead of the labels
Batch_NtokensOfTgt(src, tgt, pad) ==
    IF tgt = NoneT
    THEN [src |-> src, src_mask |-> Unsqueeze2(NotPad(src, pad))]
    ELSE [src      |-> src,
          src_mask |-> Unsqueeze2(NotPad(src, pad)),
          tgt      |-> DropLast(tgt[1]),
          tgt_y    |-> DropFirst(tgt[1]),
          tgt_mask |-> make_std_mask(DropLast(tgt[1]), pad),
          ntokens  |-> CountNotPad(DropLast(tgt[1]), pad)]

\* Batch.__init__(src, tgt, pad): the attributes of the new object
Batch(src, tgt, pad) ==
    IF tgt = NoneT
    THEN [src |-> src, src_mask |-> Unsqueeze2(NotPad(src, pad))]
    ELSE [src      |-> src,
          src_mask |-> Unsqueeze2(NotPad(src, pad)),
          tgt      |-> DropLast(tgt[1]),
          tgt_y    |-> DropFirst(tgt[1]),
          tgt_mask |-> make_std_mask(DropLast(tgt[1]), pad),
          ntokens  |-> CountNotPad(DropFirst(tgt[1]), pad)]

\* all [B, L] arrays over Tokens
Arrays(B, L) == [1..B -> [1..L -> Tokens]]

BatchIdle ==
    /\ b_pc = "off" /\ b_src = <<>> /\ b_tgt = NoneT /\ b_pad = 2 /\ batch = NoneT

BatchInit ==
    /\ b_pc = "new"
    /\ batch = NoneT
    /\ b_pad \in PadIds
    /\ \E B \in 1..MaxBatchSize :
         /\ \E S \in 1..MaxSrcLen : b_src \in Arrays(B, S)
         /\ \/ b_tgt = NoneT
            \/ \E T \in 0..MaxTgtLen : \E t \in Arrays(B, T) : b_tgt = Some(t)

\* b = Batch(src, tgt, pad)
BatchConstruct ==
    /\ b_pc = "new"
    /\ batch' = Some(Batch(b_src, b_tgt, b_pad))
    /\ b_pc' = "built"
    /\ UNCHANGED <<b_src, b_tgt, b_pad>>

(***************************************************************************)
(* LabelSmoothing.  Class ids (columns) are numbered from 0 as in the      *)
(* code, samples (rows) from 1.  x enters only through its shape.          *)
(***************************************************************************)
Zero == RatInt(0)

\* LabelSmoothing.__init__(size, padding_idx, smoothing), smoothing = s/SmoothDen
LabelSmoothing(size, padding_idx, s) ==
    [size        |-> size,
     padding_idx |-> padding_idx,
     confidence  |-> RatAdd(RatInt(1), Rat(-s, SmoothDen)),
     smoothing   |-> Rat(s, SmoothDen),
     true_dist   |-> NoneT]

\* a tensor of indices: dim 0 (one scalar), 1 (a vector) or 2 (rows of one column)
Tensor(dim, val) == [dim |-> dim, val |-> val]

\* torch.nonzero(cond) for a 1-D cond: one row <<r>> per true position, shape [m, 1]
RECURSIVE NonzeroFrom(_, _)
NonzeroFrom(cond, r) ==
    IF r > Len(cond) THEN <<>>
    ELSE (IF cond[r] THEN << <<r>> >> ELSE <<>>) \o NonzeroFrom(cond, r + 1)
Nonzero(cond) == Tensor(2, NonzeroFrom(cond, 1))

\* mask.squeeze(): every dimension of size 1 is dropped
Squeeze(m) ==
    IF Len(m.val) = 1
    THEN Tensor(0, m.val[1][1])
    ELSE Tensor(1, [k \in 1..Len(m.val) |-> m.val[k][1]])

\* t.index_fill_(0, index, v): the rows named by a 0-D or 1-D index are set to v
IndexFill0(t, index, v) ==
    LET rows == IF index.dim = 0 THEN {index.val}
                ELSE {index.val[k] : k \in 1..Len(index.val)}
    IN  [r \in 1..Len(t) |->
            IF r \in rows THEN [c \in DOMAIN t[r] |-> v] ELSE t[r]]

\* t.scatter_(1, index.unsqueeze(1), v)
Scatter1(t, index, v) ==
    [r \in 1..Len(t) |-> [t[r] EXCEPT ![index[r]] = v]]

\* t[:, col] = v
SetColumn(t, col, v) ==
    [r \in 1..Len(t) |-> [t[r] EXCEPT ![col] = v]]

\* the uniform share divided among size - 1 classes
TrueDist_ShareSizeMinus1(self, n, cols, target) ==
    LET filled    == [r \in 1..n |-> [c \in 0..(cols - 1) |->
                         RatDiv(self.smoothing, RatInt(self.size - 1))]]
        scattered == Scatter1(filled, target, self.confidence)
        padcol    == SetColumn(scattered, self.padding_idx, Zero)
        mask      == Nonzero([r \in 1..n |-> target[r] = self.padding_idx])
    IN  IF mask.dim > 0 THEN IndexFill0(padcol, Squeeze(mask), Zero) ELSE padcol

\* the rows of padding targets left as they are
TrueDist_NoRowFill(self, n, cols, target) ==
    LET filled    == [r \in 1..n |-> [c \in 0..(cols - 1) |->
                         RatDiv(self.smoothing, RatInt(self.size - 2))]]
        scattered == Scatter1(filled, target, self.confidence)
    IN  SetColumn(scattered, self.padding_idx, Zero)

\* the buffer left on self by an earlier call is used again when its shape fits
TrueDist_Stale(self, n, cols, target) ==
    IF self.true_dist # NoneT /\ Len(self.true_dist[1]) = n
    THEN self.true_dist[1]
    ELSE TrueDist_NoRowFill(self, n, cols, target)

\* LabelSmoothing.forward, lines 87-96: true_dist for x of shape [n, cols]
TrueDist(self, n, cols, target) ==
    LET filled    == [r \in 1..n |-> [c \in 0..(cols - 1) |->
                         RatDiv(self.smoothing, RatInt(self.size - 2))]]
        scattered == Scatter1(filled, target, self.confidence)
        padcol    == SetColumn(scattered, self.padding_idx, Zero)
        mask      == Nonzero([r \in 1..n |-> target[r] = self.padding_idx])
    IN  IF mask.dim > 0 THEN IndexFill0(padcol, Squeeze(mask), Zero) ELSE padcol

LSIdle ==
    /\ ls_pc = "off" /\ ls_self = LabelSmoothing(3, 0, 0)
    /\ ls_cols = 3 /\ ls_target = <<>> /\ ls_fault = None

LSInit ==
    /\ ls_pc = "call"
    /\ ls_fault = None
    /\ \E size \in 2..MaxSize :
         /\ \E p \in 0..(size - 1), s \in 0..(SmoothDen - 1) :
                ls_self = LabelSmoothing(size, p, s)
         /\ ls_cols \in {size, size + 1}
         /\ \E n \in 0..MaxRows : ls_target \in [1..n -> 0..(size - 1)]

\* forward(x, target) with x.size(1) # size: the assert of line 86 fails
LSForwardAssert ==
    /\ ls_pc = "call"
    /\ ls_cols # ls_self.size
    /\ ls_pc' = "fault"
    /\ ls_fault' = "AssertionError"
    /\ UNCHANGED <<ls_self, ls_cols, ls_target>>

\* forward(x, target) with size = 2: smoothing / (size - 2) divides by zero
LSForwardDivZero ==
    /\ ls_pc = "call"
    /\ ls_cols = ls_self.size
    /\ ls_self.size - 2 = 0
    /\ ls_pc' = "fault"
    /\ ls_fault' = "ZeroDivisionError"
    /\ UNCHANGED <<ls_self, ls_cols, ls_target>>

\* forward(x, target): true_dist is built and stored on self
LSForward ==
    /\ ls_pc = "call"
    /\ ls_cols = ls_self.size
    /\ ls_self.size - 2 # 0
    /\ ls_self' = [ls_self EXCEPT !.true_dist =
                      Some(TrueDist(ls_self, Len(ls_target), ls_cols, ls_target))]
    /\ ls_pc' = "returned"
    /\ UNCHANGED <<ls_cols, ls_target, ls_fault>>

(***************************************************************************)
(* SimpleLossCompute.  The criterion's sum-reduced value for a batch is an *)
(* input (crit); norm is the batch's token count.                          *)
(***************************************************************************)
\* SimpleLossCompute.__call__: <<sloss.data * norm, sloss>>
SimpleLossCompute(crit, norm) ==
    LET sloss == RatDiv(crit, RatInt(norm))
    IN  <<RatMul(sloss, RatInt(norm)), sloss>>

\* nn.KLDivLoss(reduction="sum")(x, t): the sum of t * (log t - x), kept as
\* scale * (E(t) - dot), E(t) the sum of t log t of the matrix t, dot the sum of t * x
RECURSIVE DotRow(_, _, _)
DotRow(t, x, c) ==
    IF c = 0 THEN Zero
    ELSE RatAdd(DotRow(t, x, c - 1), RatMul(t[c - 1], RatInt(x[c - 1])))

RECURSIVE DotRows(_, _, _)
DotRows(t, x, r) ==
    IF r = 0 THEN Zero
    ELSE RatAdd(DotRows(t, x, r - 1), DotRow(t[r], x[r], Cardinality(DOMAIN t[r])))

KLDivLoss(x, t) == [ent |-> t, dot |-> DotRows(t, x, Len(t)), scale |-> RatInt(1)]

\* a loss value multiplied by the number q
ScaleLoss(v, q) == [v EXCEPT !.scale = RatMul(@, q)]

\* LabelSmoothing.forward(x, target), x of shape [N, size]: the object after the
\* call and the value returned
LSForwardValue(self, x, target) ==
    LET true_dist == TrueDist(self, Len(x), self.size, target)
    IN  [self |-> [self EXCEPT !.true_dist = Some(true_dist)],
         out  |-> KLDivLoss(x, true_dist)]

\* the external generator: a deterministic map of the raw output, kept elementwise
Generator(x) ==
    [b \in 1..Len(x) |-> [l \in 1..Len(x[b]) |->
        [c \in DOMAIN x[b][l] |-> x[b][l][c] - 1]]]

\* x.contiguous().view(-1, x.size(-1)) and y.contiguous().view(-1)
RECURSIVE Flatten(_)
Flatten(t) == IF t = <<>> THEN <<>> ELSE Head(t) \o Flatten(Tail(t))

\* SimpleLossCompute.__call__(x, y, norm) with a LabelSmoothing criterion: the
\* criterion after the call, sloss.data * norm and sloss
LossCall(criterion, x, y, norm) ==
    LET fw    == LSForwardValue(criterion, Flatten(Generator(x)), Flatten(y))
        sloss == ScaleLoss(fw.out, Rat(1, norm))
    IN  [criterion |-> fw.self,
         display   |-> ScaleLoss(sloss, RatInt(norm)),
         node      |-> sloss]

\* the raw outputs drawn as x for a [B, L] batch over 3 classes
RawX(kind, B, L) ==
    [b \in 1..B |-> [l \in 1..L |->
        [c \in 0..2 |-> 0 - ((kind * b + l + c * kind) % 3)]]]

\* the inputs of a call: x and y of one shape with at most MaxRows positions
LossShapes == {sh \in (1..MaxRows) \X (1..MaxRows) : sh[1] * sh[2] <= MaxRows}

LossInputs ==
    UNION { { [x |-> RawX(norm, sh[1], sh[2]), y |-> y, norm |-> norm] :
                y \in [1..sh[1] -> [1..sh[2] -> 0..2]], norm \in {1, 2} } :
            sh \in LossShapes }

LossIdle ==
    /\ lc_pc = "off" /\ lc_criterion = LabelSmoothing(3, 0, 0) /\ lc_in = NoneT
    /\ lc_out = NoneT /\ lc_prev = NoneT /\ lc_n = 0 /\ lc_backward = 0

LossInit ==
    /\ lc_pc = "idle"
    /\ \E s \in {0, 1, SmoothDen - 1} : lc_criterion = LabelSmoothing(3, 0, s)
    /\ lc_in = NoneT
    /\ lc_out = NoneT
    /\ lc_prev = NoneT
    /\ lc_n = 0
    /\ lc_backward = 0

\* loss_compute(x, y, norm) with inputs in
LossCallWith(in) ==
    /\ lc_n < MaxLossCalls
    /\ LET r == LossCall(lc_criterion, in.x, in.y, in.norm)
       IN  /\ lc_criterion' = r.criterion
           /\ lc_out' = Some([display |-> r.display, node |-> r.node])
    /\ lc_in' = Some(in)
    /\ lc_n' = lc_n + 1
    /\ lc_pc' = "called"
    /\ UNCHANGED lc_backward

\* a call with new inputs
LossCallNew ==
    /\ \E in \in LossInputs : LossCallWith(in)
    /\ lc_prev' = NoneT

\* the latest call made again with the same x, y, norm
LossCallAgain ==
    /\ lc_pc = "called"
    /\ LossCallWith(lc_in[1])
    /\ lc_prev' = lc_out

(***************************************************************************)
(* TrainState.  The class holds the four attributes; an instance holds in  *)
(* its __dict__ only the attributes that were assigned on it.              *)
(***************************************************************************)
Fields == {"step", "accum_step", "samples", "tokens"}

\* class TrainState: the class attributes
TrainState == [f \in Fields |-> 0]

\* TrainState(): a new instance, its __dict__ empty
NewInstance == [has |-> {}, val |-> [f \in Fields |-> 0]]

\* o.f: the instance's attribute if it has one, else the class attribute
GetAttr(h, o, f) ==
    IF f \in h.inst[o].has THEN h.inst[o].val[f] ELSE h.cls[f]

\* the increment written to the class attribute
IAdd_OnClass(h, o, f, d) ==
    [h EXCEPT !.cls[f] = GetAttr(h, o, f) + d]

\* the increment assigned instead of added
IAdd_Assigns(h, o, f, d) ==
    [h EXCEPT !.inst[o].has = @ \cup {f},
              !.inst[o].val[f] = d]

\* o.f += d: reads o.f, binds the sum on the instance
IAdd(h, o, f, d) ==
    [h EXCEPT !.inst[o].has = @ \cup {f},
              !.inst[o].val[f] = GetAttr(h, o, f) + d]

\* the four counters as seen through instance o
Counters(h, o) == [f \in Fields |-> GetAttr(h, o, f)]

DefaultState == 1    \* the instance made by the default argument of run_epoch

(***************************************************************************)
(* The data fed to run_epoch: two streams of batches, built by Batch from  *)
(* raw arrays.  Stream 1 has batch size 2, src_len 3, tgt_len 4; stream 2  *)
(* alternates batch sizes 1 and 3 with tgt_len 3.                          *)
(***************************************************************************)
Pad == 2
LogEvery == 40

Streams == {1, 2}

RawSrc(d, j) ==
    IF d = 1 THEN << <<1, 3, 4>>, <<1, 5, Pad>> >>
    ELSE IF j % 2 = 0 THEN << <<1, 3>> >>
    ELSE << <<1, 3>>, <<1, Pad>>, <<4, 5>> >>

RawTgt(d, j) ==
    IF d = 1 THEN << <<1, 3, 4, 5>>, <<1, 3, IF j % 2 = 0 THEN Pad ELSE 4, Pad>> >>
    ELSE IF j % 2 = 0 THEN << <<1, 4, 3>> >>
    ELSE << <<1, 3, 3>>, <<1, 3, Pad>>, <<1, 4, 5>> >>

\* the j-th batch (from 0) of stream d
BatchAt(d, j) == Batch(RawSrc(d, j), Some(RawTgt(d, j)), Pad)

\* batch.src.shape[0]
BatchSize(b) == Len(b.src)

\* the criterion's value on the j-th batch of stream d
Crit(d, j) == Rat(3 * j + d, 2)

(***************************************************************************)
(* run_epoch                                                               *)
(***************************************************************************)
Modes == {"train", "train+log", "eval"}

\* every mode taken for a training mode
Training_AnyMode(m) == m \in Modes

\* mode == "train" or mode == "train+log"
Training(m) == m = "train" \/ m = "train+log"

NoCalls == [forward |-> 0, loss_compute |-> 0, backward |-> 0,
            opt_step |-> 0, zero_grad |-> 0, sched_step |-> 0]

Count(c) == [calls EXCEPT ![c] = @ + 1]

\* the current batch
Cur == BatchAt(data_iter.stream, i)

\* the gate taken on the cumulative step count of the TrainState
AccumGate_OnStep(idx, k, h, o) == (GetAttr(h, o, "step") - 1) % k = 0

\* the gate taken after every accum_iter-th batch
AccumGate_AfterK(idx, k, h, o) == (idx + 1) % k = 0

\* line 151: i % accum_iter == 0
AccumGate(idx, k, h, o) == idx % k = 0

EpochIdle(d, n) ==
    /\ heap = [cls |-> TrainState, inst |-> <<NewInstance>>]
    /\ data_iter = [stream |-> d, n |-> n]
    /\ pc = "idle"
    /\ args = [mode |-> "eval", accum_iter |-> 1, train_state |-> DefaultState,
               omitted |-> TRUE]
    /\ i = -1
    /\ loss = <<>>
    /\ total_tokens = 0
    /\ total_loss = Zero
    /\ tokens = 0
    /\ n_accum = 0
    /\ calls = NoCalls
    /\ reports = <<>>
    /\ ret = <<>>
    /\ fault = None
    /\ ncalls = 0
    /\ entry = TrainState
    /\ trained = <<0>>
    /\ trace = <<>>
    /\ grad = <<>>
    /\ applied = <<>>
    /\ refs = {}

\* TrainState(): the caller constructs an instance
Construct ==
    /\ pc \in {"idle", "done"}
    /\ Len(heap.inst) < 1 + MaxInstances
    /\ heap' = [heap EXCEPT !.inst = Append(@, NewInstance)]
    /\ trained' = Append(trained, 0)
    /\ refs' = refs \cup {Len(heap.inst) + 1}
    /\ UNCHANGED <<data_iter, pc, args, i, loss, total_tokens, total_loss, tokens, n_accum,
                   calls, reports, ret, fault, ncalls, entry,
                   trace, grad, applied>>

\* every call that omits train_state is handed a TrainState with fresh counters
HeapAtEntry_FreshDefault(h, ts) ==
    IF ts = NoneT THEN [h EXCEPT !.inst[DefaultState] = NewInstance] ELSE h

\* line 120: the default TrainState() was evaluated once, when run_epoch was
\* defined; a call constructs nothing, whether it passes train_state (ts) or not
HeapAtEntry(h, ts) == h

\* run_epoch(data_iter, ..., mode, accum_iter, train_state), lines 134-138;
\* ts is None when the call omits train_state
CallWith(m, k, ts) ==
    /\ pc \in {"idle", "done"}
    /\ ncalls < MaxCalls
    /\ ncalls' = ncalls + 1
    /\ LET o == IF ts = NoneT THEN DefaultState ELSE ts[1]
       IN  /\ args' = [mode |-> m, accum_iter |-> k, train_state |-> o,
                       omitted |-> (ts = NoneT)]
           /\ heap' = HeapAtEntry(heap, ts)
           /\ entry' = Counters(heap', o)
    /\ i' = -1
    /\ loss' = <<>>
    /\ total_tokens' = 0
    /\ total_loss' = Zero
    /\ tokens' = 0
    /\ n_accum' = 0
    /\ calls' = NoCalls
    /\ reports' = <<>>
    /\ ret' = <<>>
    /\ pc' = "iter"
    /\ trace' = <<>>
    /\ applied' = <<>>
    /\ UNCHANGED <<data_iter, fault,
                   trained, grad, refs>>

\* the caller omits train_state or passes an instance it holds
Call ==
    \E m \in Modes, k \in 1..MaxAccum, ts \in {NoneT} \cup {Some(o) : o \in refs} :
        CallWith(m, k, ts)

\* line 139: the next batch, or the end of the loop
Iter ==
    /\ pc = "iter"
    /\ IF i + 1 < data_iter.n
       THEN i' = i + 1 /\ pc' = "forward"
       ELSE i' = i /\ pc' = "return"
    /\ UNCHANGED <<heap, data_iter, args, loss, total_tokens, total_loss, tokens, n_accum,
                   calls, reports, ret, fault, ncalls, entry,
                   trained, trace, grad, applied, refs>>

\* the exception is caught and the loop goes on with the next batch
Raise_Swallowed(at, c) ==
    /\ pc = at
    /\ calls' = Count(c)
    /\ fault' = c
    /\ pc' = "iter"
    /\ trace' = Append(trace, <<c, i>>)
    /\ UNCHANGED <<heap, data_iter, args, i, loss, total_tokens, total_loss, tokens,
                   n_accum, reports, ret, ncalls, entry,
                   trained, grad, applied, refs>>

\* the exception leaves run_epoch with the counters put back to their entry values
Raise_RolledBack(at, c) ==
    /\ pc = at
    /\ calls' = Count(c)
    /\ fault' = c
    /\ pc' = "fault"
    /\ trace' = Append(trace, <<c, i>>)
    /\ heap' = [heap EXCEPT !.inst[args.train_state] = [has |-> Fields, val |-> entry]]
    /\ UNCHANGED <<data_iter, args, i, loss, total_tokens, total_loss, tokens,
                   n_accum, reports, ret, ncalls, entry,
                   trained, grad, applied, refs>>

\* an external call raises: run_epoch has no try, the exception leaves it
Raise(at, c) ==
    /\ pc = at
    /\ calls' = Count(c)
    /\ fault' = c
    /\ pc' = "fault"
    /\ trace' = Append(trace, <<c, i>>)
    /\ UNCHANGED <<heap, data_iter, args, i, loss, total_tokens, total_loss, tokens,
                   n_accum, reports, ret, ncalls, entry,
                   trained, grad, applied, refs>>

\* lines 141-143: model.forward returns
Forward ==
    /\ pc = "forward"
    /\ calls' = Count("forward")
    /\ pc' = "loss"
    /\ trace' = Append(trace, <<"forward", i>>)
    /\ UNCHANGED <<heap, data_iter, args, i, loss, total_tokens, total_loss, tokens,
                   n_accum, reports, ret, fault, ncalls, entry,
                   trained, grad, applied, refs>>

ForwardRaises == Raise("forward", "forward")

\* lines 144-146: loss_compute returns
LossCompute ==
    /\ pc = "loss"
    /\ calls' = Count("loss_compute")
    /\ loss' = SimpleLossCompute(Crit(data_iter.stream, i), Cur.ntokens)[1]
    /\ pc' = IF Training(args.mode) THEN "backward" ELSE "tally"
    /\ trace' = Append(trace, <<"loss_compute", i>>)
    /\ UNCHANGED <<heap, data_iter, args, i, total_tokens, total_loss, tokens, n_accum,
                   reports, ret, fault, ncalls, entry,
                   trained, grad, applied, refs>>

LossComputeRaises == Raise("loss", "loss_compute")

\* backward leaves only its own batch's gradient in the buffer
Accumulate_Overwrites(g, c, j) == << <<c, j>> >>

\* line 147: loss_node.backward() adds the gradient of batch j of call c to
\* what the buffer holds
Accumulate(g, c, j) == Append(g, <<c, j>>)

\* lines 147-151: backward returns, the counters advance, the gate is taken
Backward ==
    /\ pc = "backward"
    /\ calls' = Count("backward")
    /\ LET o  == args.train_state
           h1 == IAdd(heap, o, "step", 1)
           h2 == IAdd(h1, o, "samples", BatchSize(Cur))
           h3 == IAdd(h2, o, "tokens", Cur.ntokens)
       IN  /\ heap' = h3
           /\ pc' = IF AccumGate(i, args.accum_iter, h3, o)
                    THEN "optstep" ELSE "sched"
    /\ trace' = Append(trace, <<"backward", i>>)
    /\ grad' = Accumulate(grad, ncalls, i)
    /\ UNCHANGED <<data_iter, args, i, loss, total_tokens, total_loss, tokens, n_accum,
                   reports, ret, fault, ncalls, entry,
                   trained, applied, refs>>

BackwardRaises == Raise("backward", "backward")

\* line 152: optimizer.step returns
OptStep ==
    /\ pc = "optstep"
    /\ calls' = Count("opt_step")
    /\ pc' = "zerograd"
    /\ trace' = Append(trace, <<"opt_step", i>>)
    /\ applied' = grad
    /\ UNCHANGED <<heap, data_iter, args, i, loss, total_tokens, total_loss, tokens,
                   n_accum, reports, ret, fault, ncalls, entry,
                   trained, grad, refs>>

OptStepRaises == Raise("optstep", "opt_step")

\* lines 153-155: optimizer.zero_grad returns, the update is counted
ZeroGrad ==
    /\ pc = "zerograd"
    /\ calls' = Count("zero_grad")
    /\ n_accum' = n_accum + 1
    /\ heap' = IAdd(heap, args.train_state, "accum_step", 1)
    /\ pc' = "sched"
    /\ trace' = Append(trace, <<"zero_grad", i>>)
    /\ grad' = <<>>
    /\ UNCHANGED <<data_iter, args, i, loss, total_tokens, total_loss, tokens, reports,
                   ret, fault, ncalls, entry,
                   trained, applied, refs>>

ZeroGradRaises == Raise("zerograd", "zero_grad")

\* line 156: scheduler.step returns
SchedStep ==
    /\ pc = "sched"
    /\ calls' = Count("sched_step")
    /\ pc' = "tally"
    /\ trace' = Append(trace, <<"sched_step", i>>)
    /\ UNCHANGED <<heap, data_iter, args, i, loss, total_tokens, total_loss, tokens,
                   n_accum, reports, ret, fault, ncalls, entry,
                   trained, grad, applied, refs>>

SchedStepRaises == Raise("sched", "sched_step")

\* a report after every LogEvery-th batch: at indices 0, 40, 80, ...
ReportDue_Every40th(idx, m) == idx % LogEvery = 0 /\ Training(m)

\* line 161: i % 40 == 1 and (mode == "train" or mode == "train+log")
ReportDue(idx, m) == idx % LogEvery = 1 /\ Training(m)

\* lines 158-174: the running totals, the progress report, del loss
Tally ==
    /\ pc = "tally"
    /\ total_loss' = RatAdd(total_loss, loss)
    /\ total_tokens' = total_tokens + Cur.ntokens
    /\ IF ReportDue(i, args.mode)
       THEN /\ reports' = Append(reports, [i |-> i, n_accum |-> n_accum,
                                           tokens |-> tokens + Cur.ntokens])
            /\ tokens' = 0
       ELSE /\ reports' = reports
            /\ tokens' = tokens + Cur.ntokens
    /\ loss' = <<>>
    /\ pc' = "iter"
    /\ UNCHANGED <<heap, data_iter, args, i, n_accum, calls, ret, fault, ncalls, entry,
                   trained, trace, grad, applied, refs>>

\* the total divided by the number of batches
MeanLoss_PerBatch(tl, tt) == RatDiv(tl, RatInt(i + 1))

\* line 175: total_loss / total_tokens
MeanLoss(tl, tt) == RatDiv(tl, RatInt(tt))

\* line 175 after at least one batch: the mean loss and train_state are returned
Return ==
    /\ pc = "return"
    /\ i >= 0
    /\ ret' = <<MeanLoss(total_loss, total_tokens), args.train_state>>
    /\ pc' = "done"
    /\ trained' = [trained EXCEPT ![args.train_state] =
                      @ + (IF Training(args.mode) THEN 1 ELSE 0)]
    /\ refs' = refs \cup {args.train_state}
    /\ UNCHANGED <<heap, data_iter, args, i, loss, total_tokens, total_loss, tokens,
                   n_accum, calls, reports, fault, ncalls, entry,
                   trace, grad, applied>>

\* after no batch the call returns a mean loss of 0
ReturnDivZero_ReturnsZero ==
    /\ pc = "return"
    /\ i < 0
    /\ ret' = <<Zero, args.train_state>>
    /\ pc' = "done"
    /\ refs' = refs \cup {args.train_state}
    /\ UNCHANGED <<heap, data_iter, args, i, loss, total_tokens, total_loss, tokens,
                   n_accum, calls, reports, fault, ncalls, entry,
                   trained, trace, grad, applied>>

\* line 175 after no batch: total_loss and total_tokens are the ints 0, 0 / 0 raises
ReturnDivZero ==
    /\ pc = "return"
    /\ i < 0
    /\ fault' = "ZeroDivisionError"
    /\ pc' = "fault"
    /\ UNCHANGED <<heap, data_iter, args, i, loss, total_tokens, total_loss, tokens,
                   n_accum, calls, reports, ret, ncalls, entry,
                   trained, trace, grad, applied, refs>>

\* the variables of Batch and LabelSmoothing, which run_epoch leaves alone
EpochFrame == UNCHANGED <<batchVars, lsVars, lossVars>>

(***************************************************************************)
(* Specifications.                                                         *)
(*                                                                         *)
(* Spec: a training run.  Its batch sequence (a stream and a length) is    *)
(* drawn at the start and iterated by every run_epoch call; each call      *)
(* draws its mode, accum_iter and TrainState.  An exception ends the run:  *)
(* nothing is caught, so no call follows a fault.                          *)
(* SpecBatch: one Batch construction over all small arrays.                *)
(* SpecLS: one LabelSmoothing.forward call over all small inputs.          *)
(* SpecLoss: successive SimpleLossCompute calls on one criterion.          *)
(* SpecLog: run_epoch over batch sequences longer than LogEvery.           *)
(***************************************************************************)
Init ==
    /\ \E d \in Streams, n \in 0..MaxBatches : EpochIdle(d, n)
    /\ BatchIdle
    /\ LSIdle
    /\ LossIdle
Next ==
    \/ Construct /\ EpochFrame
    \/ Call /\ EpochFrame
    \/ Iter /\ EpochFrame
    \/ Forward /\ EpochFrame
    \/ ForwardRaises /\ EpochFrame
    \/ LossCompute /\ EpochFrame
    \/ LossComputeRaises /\ EpochFrame
    \/ Backward /\ EpochFrame
    \/ BackwardRaises /\ EpochFrame
    \/ OptStep /\ EpochFrame
    \/ OptStepRaises /\ EpochFrame
    \/ ZeroGrad /\ EpochFrame
    \/ ZeroGradRaises /\ EpochFrame
    \/ SchedStep /\ EpochFrame
    \/ SchedStepRaises /\ EpochFrame
    \/ Tally /\ EpochFrame
    \/ Return /\ EpochFrame
    \/ ReturnDivZero /\ EpochFrame
Spec == Init /\ [][Next]_vars

InitBatch == EpochIdle(1, 0) /\ BatchInit /\ LSIdle /\ LossIdle
NextBatch == BatchConstruct /\ UNCHANGED <<epochVars, lsVars, lossVars>>
SpecBatch == InitBatch /\ [][NextBatch]_vars

InitLS == EpochIdle(1, 0) /\ BatchIdle /\ LSInit /\ LossIdle
NextLS ==
    \/ LSForward /\ UNCHANGED <<epochVars, batchVars, lossVars>>
    \/ LSForwardAssert /\ UNCHANGED <<epochVars, batchVars, lossVars>>
    \/ LSForwardDivZero /\ UNCHANGED <<epochVars, batchVars, lossVars>>
SpecLS == InitLS /\ [][NextLS]_vars

InitLoss == EpochIdle(1, 0) /\ BatchIdle /\ LSIdle /\ LossInit
NextLoss ==
    \/ LossCallNew /\ UNCHANGED <<epochVars, batchVars, lsVars>>
    \/ LossCallAgain /\ UNCHANGED <<epochVars, batchVars, lsVars>>
SpecLoss == InitLoss /\ [][NextLoss]_vars

\* The end-to-end scenario: stream 1 (batch size 2, src_len 3, tgt_len 4, pad 2),
\* 5 batches, a constructed TrainState, two epochs in train mode, accum_iter 2.
InitLog ==
    /\ \E d \in Streams, n \in {LogEvery + 2, MaxLogBatches} : EpochIdle(d, n)
    /\ BatchIdle
    /\ LSIdle
    /\ LossIdle
\* a call on the default TrainState with accum_iter at its largest
CallLog == \E m \in Modes : CallWith(m, MaxAccum, NoneT)
NextLog ==
    \/ CallLog /\ EpochFrame
    \/ Iter /\ EpochFrame
    \/ Forward /\ EpochFrame
    \/ ForwardRaises /\ EpochFrame
    \/ LossCompute /\ EpochFrame
    \/ LossComputeRaises /\ EpochFrame
    \/ Backward /\ EpochFrame
    \/ BackwardRaises /\ EpochFrame
    \/ OptStep /\ EpochFrame
    \/ OptStepRaises /\ EpochFrame
    \/ ZeroGrad /\ EpochFrame
    \/ ZeroGradRaises /\ EpochFrame
    \/ SchedStep /\ EpochFrame
    \/ SchedStepRaises /\ EpochFrame
    \/ Tally /\ EpochFrame
    \/ Return /\ EpochFrame
SpecLog == InitLog /\ [][NextLog]_vars

InitE2E == EpochIdle(1, 5) /\ BatchIdle /\ LSIdle /\ LossIdle

CallE2E ==
    /\ Len(heap.inst) > DefaultState
    /\ ncalls < 2
    /\ CallWith("train", 2, Some(DefaultState + 1))

NextE2E ==
    \/ Construct /\ EpochFrame
    \/ CallE2E /\ EpochFrame
    \/ Iter /\ EpochFrame
    \/ Forward /\ EpochFrame
    \/ ForwardRaises /\ EpochFrame
    \/ LossCompute /\ EpochFrame
    \/ LossComputeRaises /\ EpochFrame
    \/ Backward /\ EpochFrame
    \/ BackwardRaises /\ EpochFrame
    \/ OptStep /\ EpochFrame
    \/ OptStepRaises /\ EpochFrame
    \/ ZeroGrad /\ EpochFrame
    \/ ZeroGradRaises /\ EpochFrame
    \/ SchedStep /\ EpochFrame
    \/ SchedStepRaises /\ EpochFrame
    \/ Tally /\ EpochFrame
    \/ Return /\ EpochFrame
SpecE2E == InitE2E /\ [][NextE2E]_vars

(***************************************************************************)
(* Properties.                                                             *)
(***************************************************************************)
\* the TrainState of the call in progress
TS == args.train_state

\* the scenario's second epoch has returned
E2EDone ==
    /\ pc = "done"
    /\ ncalls = 2
    /\ data_iter.n = 5
    /\ args.mode = "train"
    /\ args.accum_iter = 2
    /\ \A j \in 0..4 : BatchSize(BatchAt(data_iter.stream, j)) = 2

\* C1 as stated: after two train epochs of 5 batches of size 2 with accum_iter 2
\* on a fresh TrainState, step = 10, accum_step = 5 and samples = 20.
C1_Stated ==
    E2EDone =>
        /\ GetAttr(heap, TS, "step") = 10
        /\ GetAttr(heap, TS, "accum_step") = 5
        /\ GetAttr(heap, TS, "samples") = 20

\* C1 amended: after two train epochs of 5 batches of size 2 with accum_iter 2
\* on a fresh TrainState, step = 10, samples = 20 and accum_step = 6: the batch
\* index restarts at 0 in each call, so each epoch updates at indices 0, 2, 4.
C1_EndToEnd ==
    E2EDone =>
        /\ GetAttr(heap, TS, "step") = 10
        /\ GetAttr(heap, TS, "accum_step") = 6
        /\ GetAttr(heap, TS, "samples") = 20

C1_Witness ==
    /\ E2EDone
    /\ entry.step = 5
    /\ entry.accum_step = 3
    /\ calls.opt_step = 3
    /\ TS # DefaultState

\* the batch indices of a call over n batches at which the gate of accum_iter k opens
GateIndices(n, k) == {j \in 0..(n - 1) : j % k = 0}

\* the loop of the call in progress has ended
LoopEnded ==
    \/ pc \in {"return", "done"}
    \/ pc = "fault" /\ fault = "ZeroDivisionError"

\* C2: a call in a training mode over N batches with accum_iter k makes as many
\* optimizer.step calls as there are i in [0, N) with i % k = 0, raises accum_step
\* by that number, and makes N scheduler.step calls whatever k is.
C2_AccumulationCadence ==
    (LoopEnded /\ Training(args.mode)) =>
        /\ calls.opt_step = Cardinality(GateIndices(data_iter.n, args.accum_iter))
        /\ GetAttr(heap, TS, "accum_step") - entry.accum_step
             = Cardinality(GateIndices(data_iter.n, args.accum_iter))
        /\ calls.sched_step = data_iter.n

C2_Witness ==
    /\ pc = "done"
    /\ args.mode = "train+log"
    /\ args.accum_iter = 2
    /\ data_iter.n = 5
    /\ calls.opt_step = 3
    /\ calls.sched_step = 5
    /\ entry.accum_step > 0

\* C3: a call in eval mode leaves the four counters of its TrainState as they were
\* at entry, makes no backward, optimizer.step, optimizer.zero_grad or
\* scheduler.step call and prints no progress report.
C3_EvalFrame ==
    (ncalls > 0 /\ args.mode = "eval") =>
        /\ Counters(heap, TS) = entry
        /\ calls.backward = 0
        /\ calls.opt_step = 0
        /\ calls.zero_grad = 0
        /\ calls.sched_step = 0
        /\ reports = <<>>

C3_Witness ==
    /\ pc = "done"
    /\ args.mode = "eval"
    /\ args.accum_iter = 1
    /\ data_iter.n >= 3
    /\ calls.forward = data_iter.n
    /\ calls.loss_compute = data_iter.n
    /\ entry.step > 0

\* the display loss of the j-th batch of stream d
DisplayLoss(d, j) == SimpleLossCompute(Crit(d, j), BatchAt(d, j).ntokens)[1]

RECURSIVE SumDisplayLoss(_, _)
SumDisplayLoss(d, n) ==
    IF n = 0 THEN Zero ELSE RatAdd(SumDisplayLoss(d, n - 1), DisplayLoss(d, n - 1))

RECURSIVE SumNtokens(_, _)
SumNtokens(d, n) ==
    IF n = 0 THEN 0 ELSE SumNtokens(d, n - 1) + BatchAt(d, n - 1).ntokens

\* C8: in every mode a call over a non-empty batch sequence returns the sum of the
\* batches' display losses divided by the sum of their ntokens, and the TrainState
\* it was given.
C8_ReturnValue ==
    pc = "done" =>
        /\ data_iter.n > 0
        /\ ret = << RatDiv(SumDisplayLoss(data_iter.stream, data_iter.n),
                           RatInt(SumNtokens(data_iter.stream, data_iter.n))),
                    args.train_state >>

C8_Witness ==
    /\ pc = "done"
    /\ args.mode = "eval"
    /\ data_iter.n = 3
    /\ data_iter.stream = 2
    /\ ret # <<>>
    /\ ret[2] # DefaultState

\* C9: a failing external call ends run_epoch with that fault and no return value;
\* after it nothing more happens: no call is repeated, no batch is fetched, no
\* model, optimizer or scheduler call is made.
C9_FaultAborts ==
    /\ [](fault # None => pc = "fault" /\ ret = <<>>)
    /\ [][pc = "fault" => UNCHANGED <<pc, i, calls, ret, fault, heap>>]_vars
    /\ [][(fault = None /\ fault' # None) =>
            /\ pc' = "fault"
            /\ i' = i
            /\ \A c \in DOMAIN calls :
                 calls'[c] = calls[c] + (IF c = fault' THEN 1 ELSE 0)]_vars

C9_Witness ==
    /\ pc = "fault"
    /\ fault = "opt_step"
    /\ i = 2
    /\ data_iter.n > 3
    /\ calls.opt_step = 2
    /\ calls.zero_grad = 1
    /\ calls.forward = 3
    /\ ret = <<>>

\* C10: an instance whose __dict__ is still empty, as a newly constructed one's is,
\* reads 0 for step, accum_step, samples and tokens, whatever the calls have done
\* to the other instances, the default one included.
C10_FreshReadsZero ==
    \A o \in 1..Len(heap.inst) :
        heap.inst[o].has = {} => Counters(heap, o) = [f \in Fields |-> 0]

C10_Witness ==
    /\ Len(heap.inst) > 1
    /\ heap.inst[Len(heap.inst)].has = {}
    /\ GetAttr(heap, DefaultState, "step") > 0
    /\ GetAttr(heap, DefaultState, "tokens") > 0
    /\ ncalls = 1

\* a Batch has been built from a target
BuiltWithTgt == b_pc = "built" /\ b_tgt # NoneT

\* the Batch that was built, and the target it was built from
TheBatch  == batch[1]
TheTarget == b_tgt[1]

\* C4: for a Batch built with a target, with decoder input tgt of length L, the
\* mask is [B, L, L] and tgt_mask[b, i, j] is true exactly when j <= i and
\* tgt[b, j] is not the pad id.
C4_MaskCorrect ==
    BuiltWithTgt =>
        LET tgt == TheBatch.tgt
            m   == TheBatch.tgt_mask
            L   == Len(tgt[1])
        IN  /\ Len(m) = Len(tgt)
            /\ \A b \in 1..Len(tgt) :
                 /\ Len(m[b]) = L
                 /\ \A r \in 1..L :
                      /\ Len(m[b][r]) = L
                      /\ \A c \in 1..L :
                           m[b][r][c] <=> (c <= r /\ tgt[b][c] # b_pad)

C4_Witness ==
    /\ BuiltWithTgt
    /\ Len(TheBatch.tgt) = 2
    /\ Len(TheBatch.tgt[1]) = 2
    /\ TheBatch.tgt[1] = <<b_pad, 3 - b_pad>>
    /\ TheBatch.tgt[2] = <<3 - b_pad, 3 - b_pad>>
    /\ TheBatch.tgt_mask[1] = << <<FALSE, FALSE>>, <<FALSE, TRUE>> >>
    /\ TheBatch.tgt_mask[2] = << <<TRUE, FALSE>>, <<TRUE, TRUE>> >>

\* C7: for a Batch built with a target of length T >= 1, tgt and tgt_y have length
\* T - 1, tgt[b, j] = target[b, j], tgt_y[b, j] = target[b, j + 1], and ntokens is
\* the number of positions of tgt_y that differ from pad.
C7_ShiftAndCount ==
    (BuiltWithTgt /\ Len(TheTarget[1]) >= 1) =>
        LET T == Len(TheTarget[1])
            B == Len(TheTarget)
        IN  /\ Len(TheBatch.tgt) = B
            /\ Len(TheBatch.tgt_y) = B
            /\ \A b \in 1..B :
                 /\ Len(TheBatch.tgt[b]) = T - 1
                 /\ Len(TheBatch.tgt_y[b]) = T - 1
                 /\ \A j \in 1..(T - 1) :
                      /\ TheBatch.tgt[b][j] = TheTarget[b][j]
                      /\ TheBatch.tgt_y[b][j] = TheTarget[b][j + 1]
            /\ TheBatch.ntokens =
                 Cardinality({p \in (1..B) \X (1..(T - 1)) :
                                 TheBatch.tgt_y[p[1]][p[2]] # b_pad})
            /\ (\A b \in 1..B : \A j \in 2..T : TheTarget[b][j] # b_pad)
                 => TheBatch.ntokens = B * (T - 1)

C7_Witness ==
    /\ BuiltWithTgt
    /\ TheTarget = << <<b_pad, 3 - b_pad, 3 - b_pad>>, <<3 - b_pad, 3 - b_pad, b_pad>> >>
    /\ TheBatch.tgt = << <<b_pad, 3 - b_pad>>, <<3 - b_pad, 3 - b_pad>> >>
    /\ TheBatch.tgt_y = << <<3 - b_pad, 3 - b_pad>>, <<3 - b_pad, b_pad>> >>
    /\ TheBatch.ntokens = 3

\* forward has returned; the distribution it built
LSReturned == ls_pc = "returned"
Dist       == ls_self.true_dist[1]

RECURSIVE RatSum(_, _)
\* the sum of row[0 .. c - 1]
RatSum(row, c) == IF c = 0 THEN Zero ELSE RatAdd(RatSum(row, c - 1), row[c - 1])

\* C5: for size >= 3, smoothing in [0, 1) and a sample whose target t is not
\* padding_idx, the row built by forward holds 1 - smoothing at t, 0 at padding_idx,
\* smoothing / (size - 2) at every other index, and sums to 1.
C5_SmoothedRow ==
    (LSReturned /\ ls_self.size >= 3) =>
        \A r \in 1..Len(ls_target) :
            ls_target[r] # ls_self.padding_idx =>
                LET sm == ls_self.smoothing
                IN  /\ DOMAIN Dist[r] = 0..(ls_self.size - 1)
                    /\ \A c \in 0..(ls_self.size - 1) :
                         Dist[r][c] =
                            IF c = ls_target[r] THEN Rat(sm[2] - sm[1], sm[2])
                            ELSE IF c = ls_self.padding_idx THEN Zero
                            ELSE Rat(sm[1], sm[2] * (ls_self.size - 2))
                    /\ RatSum(Dist[r], ls_self.size) = RatInt(1)

C5_Witness ==
    /\ LSReturned
    /\ ls_self.size = 5
    /\ ls_self.padding_idx = 0
    /\ ls_self.smoothing = <<1, 10>>
    /\ ls_target = <<2>>
    /\ Dist = << [c \in 0..4 |-> IF c = 0 THEN <<0, 1>>
                                 ELSE IF c = 2 THEN <<9, 10>> ELSE <<1, 30>>] >>

\* C6: every row whose target is padding_idx is all zeros, however many such rows
\* there are, and a row whose target is not padding_idx is not zeroed: it keeps
\* 1 - smoothing at its target.
C6_PaddingRowsZeroed ==
    LSReturned =>
        \A r \in 1..Len(ls_target) :
            IF ls_target[r] = ls_self.padding_idx
            THEN \A c \in DOMAIN Dist[r] : Dist[r][c] = Zero
            ELSE /\ Dist[r][ls_target[r]] = ls_self.confidence
                 /\ Dist[r][ls_target[r]] # Zero

C6_Witness ==
    /\ LSReturned
    /\ Len(ls_target) = 2
    /\ ls_target[1] = ls_self.padding_idx
    /\ ls_target[2] = ls_self.padding_idx
    /\ ls_self.smoothing # Zero
    /\ \A r \in 1..2 : \A c \in DOMAIN Dist[r] : Dist[r][c] = Zero

RECURSIVE SumSizes(_, _)
\* the batch sizes of the first n batches of stream d, added up
SumSizes(d, n) ==
    IF n = 0 THEN 0 ELSE SumSizes(d, n - 1) + BatchSize(BatchAt(d, n - 1))

\* no call is in progress
Quiet == pc \in {"idle", "done"}

FreshLoss(in) ==
    LET r == LossCall([lc_criterion EXCEPT !.true_dist = NoneT], in.x, in.y, in.norm)
    IN  [display |-> r.display, node |-> r.node]

\* C12: a call of SimpleLossCompute repeated with the same x, y, norm returns the
\* same display and backward loss; what a call returns is what it returns on a
\* criterion never called before, whatever true_dist an earlier call left; the
\* display value is the backward value times norm; no call triggers backward.
C12_LossIdempotent ==
    lc_pc = "called" =>
        /\ lc_prev # NoneT => lc_out = lc_prev
        /\ lc_out[1] = FreshLoss(lc_in[1])
        /\ lc_out[1].display = ScaleLoss(lc_out[1].node, RatInt(lc_in[1].norm))
        /\ lc_backward = 0

C12_Witness ==
    /\ lc_pc = "called"
    /\ lc_n = 3
    /\ lc_prev # NoneT
    /\ lc_out = lc_prev
    /\ lc_in[1].norm = 2
    /\ lc_in[1].y = << <<1, 0>> >>
    /\ lc_criterion.padding_idx = 0
    /\ lc_criterion.smoothing = <<1, 10>>
    /\ lc_out[1].node.scale = <<1, 2>>
    /\ lc_out[1].display.scale = <<1, 1>>
    /\ lc_out[1].display.dot # Zero

\* the external calls of batch j in mode m with accum_iter k, in order
BatchCalls(j, m, k) ==
    << <<"forward", j>>, <<"loss_compute", j>> >>
    \o (IF Training(m)
        THEN << <<"backward", j>> >>
             \o (IF j % k = 0 THEN << <<"opt_step", j>>, <<"zero_grad", j>> >> ELSE <<>>)
             \o << <<"sched_step", j>> >>
        ELSE <<>>)

\* the external calls of batches 0..n-1, batch after batch
RECURSIVE EpochCalls(_, _, _)
EpochCalls(n, m, k) ==
    IF n <= 0 THEN <<>> ELSE EpochCalls(n - 1, m, k) \o BatchCalls(n - 1, m, k)

IsPrefix(s, t) == Len(s) <= Len(t) /\ SubSeq(t, 1, Len(s)) = s

\* C13: the external calls of a run_epoch call are made batch after batch in the
\* sequence's order, and within batch i in the order forward, loss_compute,
\* backward, then optimizer.step and zero_grad only if i % accum_iter = 0, then
\* scheduler.step (the last four in a training mode only); no call for batch
\* i + 1 is made before every call of batch i has been made.
C13_CallOrder ==
    ncalls > 0 =>
        LET before == EpochCalls(i, args.mode, args.accum_iter)
            upto   == EpochCalls(i + 1, args.mode, args.accum_iter)
        IN  /\ IsPrefix(before, trace)
            /\ IsPrefix(trace, upto)
            /\ pc \in {"tally", "iter", "return", "done"} => trace = upto
            /\ pc = "forward" => trace = before
            /\ pc \in {"loss", "backward", "optstep", "zerograd", "sched"} =>
                   /\ Len(before) < Len(trace)
                   /\ Len(trace) < Len(upto)

C13_Witness ==
    /\ pc = "done"
    /\ args.mode = "train"
    /\ args.accum_iter = 2
    /\ data_iter.n = 3
    /\ Len(trace) = 16
    /\ SubSeq(trace, 5, 11) = << <<"zero_grad", 0>>, <<"sched_step", 0>>, <<"forward", 1>>,
                                 <<"loss_compute", 1>>, <<"backward", 1>>,
                                 <<"sched_step", 1>>, <<"forward", 2>> >>

\* the batches of the current call whose totals have been added (lines 158-160)
Tallied == IF pc \in {"iter", "return", "done"} THEN i + 1 ELSE IF i < 0 THEN 0 ELSE i

\* ntokens of the batches a+1 .. b of the sequence
RECURSIVE Window(_, _)
Window(a, b) ==
    IF b <= a THEN 0 ELSE Window(a, b - 1) + BatchAt(data_iter.stream, b).ntokens

\* C14: within a call the reports printed so far are those of the processed batch
\* indices i with i % 40 = 1, in a training mode, and none in eval; each report
\* carries the tokens of the batches after the previous report (or from the start
\* of the call) up to its own batch, and the window counter holds the tokens of
\* the batches processed after the last report, 0 right after a report.
C14_ReportCadence ==
    ncalls > 0 =>
        /\ {reports[r].i : r \in 1..Len(reports)} =
               {j \in 0..(Tallied - 1) : j % 40 = 1 /\ args.mode \in {"train", "train+log"}}
        /\ \A r \in 1..Len(reports) :
               LET prev == IF r = 1 THEN -1 ELSE reports[r - 1].i
               IN  /\ prev < reports[r].i
                   /\ reports[r].tokens = Window(prev, reports[r].i)
        /\ tokens = Window(IF reports = <<>> THEN -1 ELSE reports[Len(reports)].i,
                           Tallied - 1)

C14_Witness ==
    /\ pc = "iter"
    /\ i = 41
    /\ args.mode = "train+log"
    /\ data_iter.stream = 1
    /\ Len(reports) = 2
    /\ reports[1].i = 1
    /\ reports[2].i = 41
    /\ reports[1].tokens = Window(-1, 1)
    /\ reports[2].tokens = Window(1, 41)
    /\ reports[2].tokens > reports[1].tokens
    /\ tokens = 0
    /\ ncalls = 2

\* two training-mode calls have returned, both made without train_state (the
\* caller holds no reference to the default instance before a call returns it)
TwoOmitted ==
    /\ pc = "done"
    /\ ncalls = 2
    /\ args.omitted
    /\ Training(args.mode)
    /\ trained[DefaultState] = 2

\* the counters the second of two omitting calls returns hold both contributions
SumOfBoth ==
    TwoOmitted =>
        /\ ret[2] = DefaultState
        /\ entry.step = data_iter.n
        /\ entry.samples = SumSizes(data_iter.stream, data_iter.n)
        /\ entry.tokens = SumNtokens(data_iter.stream, data_iter.n)
        /\ GetAttr(heap, ret[2], "step") = entry.step + data_iter.n
        /\ GetAttr(heap, ret[2], "samples") =
               entry.samples + SumSizes(data_iter.stream, data_iter.n)
        /\ GetAttr(heap, ret[2], "tokens") =
               entry.tokens + SumNtokens(data_iter.stream, data_iter.n)
        /\ GetAttr(heap, ret[2], "accum_step") =
               entry.accum_step + Cardinality(GateIndices(data_iter.n, args.accum_iter))
        /\ data_iter.n > 0 => entry.accum_step > 0

\* C15 as stated: every call that omits train_state works on the one default
\* instance, two omitting training calls leave the sum of their contributions
\* in it, and no step of a call given train_state explicitly changes the
\* default instance.
C15_Stated ==
    /\ [](ncalls > 0 /\ args.omitted => TS = DefaultState)
    /\ []SumOfBoth
    /\ [][(ncalls > 0 /\ ~args.omitted /\ pc \notin {"idle", "done"}) =>
             Counters(heap', DefaultState) = Counters(heap, DefaultState)]_vars

\* C15: every call that omits train_state works on the one default instance,
\* two omitting training calls leave the sum of their contributions in it, and
\* no step of a call given an instance other than the default one changes the
\* default instance; a call given the default instance itself, which an earlier
\* call returned, does change it.
C15_SharedDefault ==
    /\ [](ncalls > 0 /\ args.omitted => TS = DefaultState)
    /\ []SumOfBoth
    /\ [][(ncalls > 0 /\ TS # DefaultState /\ pc \notin {"idle", "done"}) =>
             Counters(heap', DefaultState) = Counters(heap, DefaultState)]_vars
    /\ [](ncalls > 0 /\ TS # DefaultState => ~args.omitted)

C15_Witness ==
    /\ TwoOmitted
    /\ data_iter = [stream |-> 2, n |-> 3]
    /\ args.accum_iter = 2
    /\ entry.step = 3
    /\ entry.accum_step \in {2, 3}
    /\ GetAttr(heap, DefaultState, "step") = 6
    /\ GetAttr(heap, DefaultState, "accum_step") = entry.accum_step + 2
    /\ ret[2] = DefaultState

\* the gradients in g that call c put there, and those left from earlier calls
Own(g, c) == SelectSeq(g, LAMBDA e : e[1] = c)
Old(g, c) == SelectSeq(g, LAMBDA e : e[1] < c)

\* batches a .. b of call c, in order
Batches(c, a, b) == [j \in 1..(IF b < a THEN 0 ELSE b - a + 1) |-> <<c, a + j - 1>>]

\* the batches of call c back-propagated after the latest gate index up to x
SinceGate(c, x, k) == IF x < 0 THEN <<>> ELSE Batches(c, x - (x % k) + 1, x)

\* C16: in a training-mode call the gradient buffer holds the batches
\* back-propagated since the last zero_grad; the optimizer step at index 0
\* applies batch 0 together with whatever earlier calls left, each later step at
\* index m*k applies exactly the k batches (m-1)*k+1 .. m*k; at return the last
\* (N-1) % k batches are still in the buffer, unapplied, and neither the return
\* nor the next call's entry clears them.
C16_GradientBuffer ==
    /\ [](ncalls > 0 /\ Training(args.mode) /\ pc # "fault" =>
            LET c == ncalls
                k == args.accum_iter
            IN  /\ Own(grad, c) =
                       IF pc \in {"forward", "loss", "backward"} THEN SinceGate(c, i - 1, k)
                       ELSE IF pc \in {"optstep", "zerograd"}
                            THEN SinceGate(c, i - 1, k) \o << <<c, i>> >>
                            ELSE SinceGate(c, i, k)
                /\ grad = Old(grad, c) \o Own(grad, c)
                /\ (i > 0 \/ (i = 0 /\ pc \notin {"forward", "loss", "backward",
                                                  "optstep", "zerograd"})) =>
                       Old(grad, c) = <<>>
                /\ pc = "zerograd" =>
                       /\ applied = grad
                       /\ i % k = 0
                       /\ i = 0 => applied = Old(grad, c) \o << <<c, 0>> >>
                       /\ i > 0 => applied = Batches(c, i - k + 1, i)
                /\ pc = "done" =>
                       /\ Len(grad) = (data_iter.n - 1) % k
                       /\ grad = Batches(c, data_iter.n - Len(grad), data_iter.n - 1))
    /\ [][ncalls' # ncalls => grad' = grad]_vars
    /\ [][pc = "done" \/ pc' = "done" => grad' = grad]_vars

C16_Witness ==
    /\ pc = "zerograd"
    /\ ncalls = 2
    /\ i = 0
    /\ data_iter.n = 4
    /\ args.accum_iter = 2
    /\ applied = << <<1, 3>>, <<2, 0>> >>
    /\ grad = applied

\* C17: a call over an empty batch sequence, in any mode, never returns: from the
\* final total_loss / total_tokens it goes to a ZeroDivisionError, and up to
\* there it has made no model, loss, optimizer or scheduler call and has changed
\* no TrainState.
C17_EmptySequence ==
    /\ [](ncalls > 0 /\ data_iter.n = 0 =>
            /\ pc \in {"iter", "return", "fault"}
            /\ ret = <<>>
            /\ i = -1
            /\ calls = NoCalls
            /\ trace = <<>>
            /\ Counters(heap, TS) = entry
            /\ pc = "fault" => fault = "ZeroDivisionError")
    /\ [][pc = "return" /\ data_iter.n = 0 => pc' = "fault"]_vars
    /\ [][ncalls > 0 /\ data_iter.n = 0 => heap' = heap]_vars

C17_Witness ==
    /\ data_iter.n = 0
    /\ ncalls = 1
    /\ pc = "fault"
    /\ fault = "ZeroDivisionError"
    /\ args.mode = "train"
    /\ TS # DefaultState
    /\ ret = <<>>
    /\ total_tokens = 0
    /\ total_loss = Zero

\* what the call in progress has added to the counters of its TrainState
Delta == [f \in Fields |-> GetAttr(heap, TS, f) - entry[f]]

\* the counters' increase after the training part of batches 0..n-1, g of them gated
Counted(n, g) ==
    [step       |-> n,
     samples    |-> SumSizes(data_iter.stream, n),
     tokens     |-> SumNtokens(data_iter.stream, n),
     accum_step |-> Cardinality(GateIndices(g, args.accum_iter))]

\* C18: when an external call raises at batch i of a training-mode call, the
\* TrainState keeps what the call has counted so far: batches 0..i-1 in full;
\* nothing of batch i if forward, loss_compute or backward raised; batch i in
\* step, samples and tokens but not in accum_step if optimizer.step (or
\* zero_grad) raised; nothing is put back afterwards.
C18_PartialUpdate ==
    /\ [](pc = "fault" /\ fault # "ZeroDivisionError" /\ Training(args.mode) =>
            /\ fault \in {"forward", "loss_compute", "backward"} => Delta = Counted(i, i)
            /\ fault \in {"opt_step", "zero_grad"} =>
                   /\ Delta = Counted(i + 1, i)
                   /\ i % args.accum_iter = 0
            /\ fault = "sched_step" => Delta = Counted(i + 1, i + 1)
            /\ (i > 0 \/ fault \in {"opt_step", "zero_grad", "sched_step"}) =>
                   Counters(heap, TS) # entry)
    /\ [][pc' = "fault" => heap' = heap]_vars

C18_Witness ==
    /\ pc = "fault"
    /\ fault = "opt_step"
    /\ args.mode = "train"
    /\ args.accum_iter = 2
    /\ i = 2
    /\ ncalls = 2
    /\ entry.step = 3
    /\ Delta.step = 3
    /\ Delta.accum_step = 1
    /\ Delta.tokens = SumNtokens(data_iter.stream, 3)

====
